---- MODULE Spec2Model ----
(***************************************************************************)
(* Model of the attendance converter: attendance_calculator.py             *)
(* (AttendanceRecord, DailyAttendance, AttendanceProcessor) and the part   *)
(* of app.py that builds the processor.                                    *)
(*                                                                         *)
(* Instants (Python datetime) are records [y, s]: the year and the number  *)
(* of seconds since the start of that year.  Hours are kept in seconds     *)
(* (actual_hours * 3600) and reported in hundredths of an hour, which is   *)
(* what round(x, 2) yields.  Arithmetic is exact; the inputs are chosen so *)
(* that no value lies half-way between two hundredths, where binary        *)
(* floating point and exact arithmetic could round differently.            *)
(***************************************************************************)
EXTENDS Integers, Sequences, FiniteSets, TLC

VARIABLES
    employee_start_times,  \* AttendanceProcessor.employee_start_times
    stage,                 \* position of process_csv
    columns,               \* df.columns, the header sequence
    df,                    \* the rows of the DataFrame
    column_mapping,        \* header -> canonical field
    pending,               \* date groups still to be visited by the loops
    dailies,               \* DailyAttendance objects built so far
    results,               \* results list / result table
    error,                 \* the exception that ended the run, "" if none
    perm                   \* two header orders and their resolutions

vars == <<employee_start_times, stage, columns, df, column_mapping, pending,
          dailies, results, error, perm>>

----------------------------------------------------------------------------
(* Program constants *)

BreakMinInterval == 30
BreakMaxInterval == 120
MinBreakMinutes == 60
FallbackWorkHours == 4
FallbackBreakHours == 1
StandardHours == 8
DefaultStartHour == 8
DefaultStartMinute == 0
DefaultYear == 1900

(* Bounds of the model *)

MaxPunches == 3
MaxRows == 2
MaxCols == 5

----------------------------------------------------------------------------
(* datetime *)

SecPerHour == 60 * 60
SecPerMin == SecPerHour \div 60
SecPerDay == 24 * SecPerHour

NoneDt == [y |-> -1, s |-> 0]
IsNone(dt) == dt.y = -1
DtMax == [y |-> 9999, s |-> 366 * SecPerDay - 1]

\* days before the first of month m (January and February only)
DaysBefore(m) == IF m = 1 THEN 0 ELSE 31

MkDt(y, m, d, h, mi, sec) ==
    [y |-> y, s |-> (DaysBefore(m) + d - 1) * SecPerDay + h * SecPerHour + mi * SecPerMin + sec]

DtLT(a, b) == a.y < b.y \/ (a.y = b.y /\ a.s < b.s)
DtLE(a, b) == a.y < b.y \/ (a.y = b.y /\ a.s <= b.s)

\* (a - b).total_seconds(); the instants of one run lie in one year
TotalSeconds(a, b) == (a.y - b.y) * 365 * SecPerDay + (a.s - b.s)

\* dt + timedelta(seconds = n)
AddSeconds(dt, n) == [y |-> dt.y, s |-> dt.s + n]

TimeOfDay(dt) == dt.s % SecPerDay
Hour(dt) == TimeOfDay(dt) \div SecPerHour
Minute(dt) == (TimeOfDay(dt) % SecPerHour) \div SecPerMin
Second(dt) == TimeOfDay(dt) % SecPerMin

\* dt.replace(minute=0, second=0, microsecond=0)
ReplaceMinute0(dt) == [y |-> dt.y, s |-> dt.s - (dt.s % SecPerHour)]

\* dt.replace(hour=h, minute=m, second=0, microsecond=0)
ReplaceTime(dt, h, m) ==
    [y |-> dt.y, s |-> dt.s - TimeOfDay(dt) + h * SecPerHour + m * SecPerMin]

\* dt.strftime("%H:%M"), "" for None
StrfHM(dt) == IF IsNone(dt) THEN <<>> ELSE <<Hour(dt), Minute(dt)>>

\* round(n / d, 0) for integers n and d > 0, half to even
RoundHalfEven(n, d) ==
    LET q == n \div d
        r == n % d
    IN  IF 2 * r < d THEN q
        ELSE IF 2 * r > d THEN q + 1
        ELSE IF q % 2 = 0 THEN q ELSE q + 1

\* round(seconds / 3600, 2), in hundredths of an hour
Round2Hours(sec) == RoundHalfEven(sec * 100, SecPerHour)

----------------------------------------------------------------------------
(* Datetime text.  A text is a record:                                     *)
(*   sep  "/" or "-" between the date fields, "" for a text that is no     *)
(*        date and time at all                                             *)
(*   y    the year as written, 0 if the text has no year field             *)
(*   m, d the month and day; pad: whether they are zero-padded             *)
(*   h, mi the hour and minute; sec: the seconds, -1 if not written        *)
(*   code whether a machine code such as " A12P12 " sits between the date  *)
(*        and the time                                                     *)

Text(sep, y, m, d, pad, h, mi, sec, code) ==
    [sep |-> sep, y |-> y, m |-> m, d |-> d, pad |-> pad, h |-> h, mi |-> mi,
     sec |-> sec, code |-> code]

JunkText == Text("", 0, 0, 0, TRUE, 0, 0, -1, FALSE)

\* strptime's %Y takes exactly four digits
FourDigitYear(y) == y >= 1000 /\ y <= 9999

\* the formats of _parse_datetime, in order: separator, year field, seconds field
formats ==
    << [sep |-> "/", year |-> TRUE,  secs |-> FALSE],
       [sep |-> "-", year |-> TRUE,  secs |-> FALSE],
       [sep |-> "/", year |-> TRUE,  secs |-> TRUE],
       [sep |-> "-", year |-> TRUE,  secs |-> TRUE],
       [sep |-> "/", year |-> FALSE, secs |-> FALSE],
       [sep |-> "-", year |-> FALSE, secs |-> FALSE] >>

\* re.sub(r'\s+[A-Z0-9]+\s+', ' ', s): the machine code goes
StripMachineCode(t) == [t EXCEPT !.code = FALSE]

\* datetime.strptime(s, fmt) succeeds
Strptime_ok(t, fmt) ==
    /\ ~t.code
    /\ t.sep = fmt.sep
    /\ (fmt.year <=> t.y # 0)
    /\ (fmt.year => FourDigitYear(t.y))
    /\ (fmt.secs <=> t.sec # -1)
    /\ t.m \in 1..12 /\ t.d \in 1..31
    /\ t.h \in 0..23 /\ t.mi \in 0..59 /\ t.sec \in -1..59

Strptime(t, fmt) ==
    MkDt(IF fmt.year THEN t.y ELSE DefaultYear, t.m, t.d, t.h, t.mi,
         IF fmt.secs THEN t.sec ELSE 0)

parse_datetime(datetime_str) ==
    LET t == StripMachineCode(datetime_str)
        hits == {i \in 1..Len(formats) : Strptime_ok(t, formats[i])}
    IN  IF hits = {} THEN NoneDt
        ELSE Strptime(t, formats[CHOOSE i \in hits : \A j \in hits : i <= j])

AttendanceRecord(name, emp_id, datetime_str) ==
    [name |-> name, emp_id |-> emp_id, datetime_str |-> datetime_str,
     datetime |-> parse_datetime(datetime_str)]

----------------------------------------------------------------------------
(* DailyAttendance *)

\* key=lambda r: r.datetime if r.datetime else datetime.max
RecordKey(r) == IF IsNone(r.datetime) THEN DtMax ELSE r.datetime

RECURSIVE InsertRecord(_, _)
\* r goes after every element whose key is <= its own: the sort is stable
InsertRecord(r, seq) ==
    IF seq = <<>> THEN <<r>>
    ELSE IF DtLT(RecordKey(r), RecordKey(Head(seq))) THEN <<r>> \o seq
    ELSE <<Head(seq)>> \o InsertRecord(r, Tail(seq))

\* the records left in file order
SortRecordsNone(records) == records

RECURSIVE SortRecords(_)
\* sorted(records, key=...)
SortRecords(records) ==
    IF records = <<>> THEN <<>>
    ELSE InsertRecord(records[Len(records)],
                      SortRecords(SubSeq(records, 1, Len(records) - 1)))

\* the condition of the scan of _estimate_break on the pair (records[i], records[i+1])
IsBreakPair(records, i) ==
    LET r1 == records[i]
        r2 == records[i + 1]
        interval == TotalSeconds(r2.datetime, r1.datetime)
    IN  /\ ~IsNone(r1.datetime)
        /\ ~IsNone(r2.datetime)
        /\ BreakMinInterval * SecPerMin <= interval
        /\ interval <= BreakMaxInterval * SecPerMin
        /\ 10 * SecPerHour + 30 * SecPerMin <= TimeOfDay(r1.datetime)
        /\ TimeOfDay(r1.datetime) <= 14 * SecPerHour + 30 * SecPerMin

\* the last pair that meets the condition, 0 if none does
BreakPairIndexLast(records) ==
    LET hits == {i \in 1..(Len(records) - 1) : IsBreakPair(records, i)}
    IN  IF hits = {} THEN 0 ELSE CHOOSE i \in hits : \A j \in hits : j <= i

\* the pair at which the scan breaks out of the loop, 0 if it runs to the end
BreakPairIndex(records) ==
    LET hits == {i \in 1..(Len(records) - 1) : IsBreakPair(records, i)}
    IN  IF hits = {} THEN 0 ELSE CHOOSE i \in hits : \A j \in hits : i <= j

\* int(interval_minutes), not raised
DetectedBreakMinutesRaw(interval) == interval \div SecPerMin

\* int(interval_minutes), raised to 60 when below
DetectedBreakMinutes(interval) ==
    LET m == interval \div SecPerMin
    IN  IF m < MinBreakMinutes THEN MinBreakMinutes ELSE m

\* the fallback of _estimate_break: one hour of break after four hours of work
FallbackBreak(self) ==
    LET break_start_time == AddSeconds(self.check_in_time, FallbackWorkHours * SecPerHour)
    IN  IF DtLT(break_start_time, self.check_out_time)
        THEN [self EXCEPT !.break_start = break_start_time,
                          !.break_end = AddSeconds(break_start_time, FallbackBreakHours * SecPerHour),
                          !.break_minutes = 60]
        ELSE self

estimate_break(self, records) ==
    IF Len(records) < 2 THEN self
    ELSE
        LET i == BreakPairIndex(records)
            found ==
                IF i = 0 THEN self
                ELSE [self EXCEPT
                        !.break_start = records[i].datetime,
                        !.break_end = records[i + 1].datetime,
                        !.break_minutes = DetectedBreakMinutes(
                            TotalSeconds(records[i + 1].datetime, records[i].datetime))]
        IN  IF found.break_minutes = 0
               /\ ~IsNone(found.check_in_time) /\ ~IsNone(found.check_out_time)
            THEN FallbackBreak(found)
            ELSE found

\* the excess over eight hours, taken whether or not there is one
OvertimeAlways(actual_seconds) == actual_seconds - StandardHours * SecPerHour

\* overtime_hours, in seconds
Overtime(actual_seconds) ==
    IF actual_seconds > StandardHours * SecPerHour
    THEN actual_seconds - StandardHours * SecPerHour
    ELSE 0

\* the instant the worked time is counted from
HoursStart(self) == self.check_in_time

calculate_hours(self) ==
    IF IsNone(self.check_in_time) \/ IsNone(self.check_out_time) THEN self
    ELSE
        LET total_seconds == TotalSeconds(self.check_out_time, HoursStart(self))
            actual_seconds == total_seconds - self.break_minutes * SecPerMin
        IN  [self EXCEPT !.actual_seconds = actual_seconds,
                         !.overtime_seconds = Overtime(actual_seconds)]

ValidRecords(records) == SelectSeq(records, LAMBDA r : ~IsNone(r.datetime))

\* check_in_time and check_out_time: the first and the last valid record
CheckInOut(self, valid_records) ==
    [self EXCEPT !.check_in_time = valid_records[1].datetime,
                 !.check_out_time = valid_records[Len(valid_records)].datetime]

calculate(self) ==
    LET valid_records == ValidRecords(self.records)
    IN  IF valid_records = <<>>
        THEN [self EXCEPT !.remarks = "no valid punch"]
        ELSE calculate_hours(estimate_break(CheckInOut(self, valid_records), valid_records))

DailyAttendance(name, emp_id, date, records, start_time_hour, start_time_minute) ==
    calculate([name |-> name, emp_id |-> emp_id, date |-> date,
               records |-> SortRecords(records),
               start_time_hour |-> start_time_hour,
               start_time_minute |-> start_time_minute,
               check_in_time |-> NoneDt, check_out_time |-> NoneDt,
               break_start |-> NoneDt, break_end |-> NoneDt,
               break_minutes |-> 0, actual_seconds |-> 0, overtime_seconds |-> 0,
               remarks |-> ""])

\* every check-in off the hour raised to the next hour, late or not
round_time_up(dt, start_time_hour, start_time_minute) ==
    IF IsNone(dt) THEN dt
    ELSE IF Minute(dt) > 0 \/ Second(dt) > 0
         THEN AddSeconds(ReplaceMinute0(dt), SecPerHour)
         ELSE ReplaceMinute0(dt)

\* every check-in cut down to the hour, early or not
round_time_floor(dt, start_time_hour, start_time_minute) ==
    IF IsNone(dt) THEN dt ELSE ReplaceMinute0(dt)

round_time_to_hour(dt, start_time_hour, start_time_minute) ==
    IF IsNone(dt) THEN dt
    ELSE
        LET start_time == ReplaceTime(dt, start_time_hour, start_time_minute)
        IN  IF DtLE(start_time, dt) THEN ReplaceMinute0(dt)
            ELSE IF Minute(dt) > 0 \/ Second(dt) > 0
                 THEN AddSeconds(ReplaceMinute0(dt), SecPerHour)
                 ELSE ReplaceMinute0(dt)

\* the check-in that to_dict reports
CheckInRounded(self) ==
    round_time_to_hour(self.check_in_time, self.start_time_hour, self.start_time_minute)

\* date.strftime("%Y/%m/%d")
StrfDate(date) == [y |-> date.y, m |-> date.m, d |-> date.d, pad |-> TRUE]

\* the keys of the row, in the order of the source: date, name, emp_id,
\* check_in, check_out, break_start, break_end, break_minutes,
\* actual_hours, overtime_hours (both in hundredths), remarks
to_dict(self) ==
    [date |-> StrfDate(self.date),
     name |-> self.name,
     emp_id |-> self.emp_id,
     check_in |-> StrfHM(CheckInRounded(self)),
     check_out |-> StrfHM(self.check_out_time),
     break_start |-> StrfHM(self.break_start),
     break_end |-> StrfHM(self.break_end),
     break_minutes |-> self.break_minutes,
     actual_hours |-> Round2Hours(self.actual_seconds),
     overtime_hours |-> Round2Hours(self.overtime_seconds),
     remarks |-> self.remarks]

----------------------------------------------------------------------------
(* Headers.  A header or a keyword is the sequence of its characters; the  *)
(* Chinese characters are written by their readings:                       *)
(*   xing ming: name          ming zi: given name                          *)
(*   kao qin hao ma: attendance number      yuan gong: employee            *)
(*   gong hao: staff number   ri qi shi jian: date and time                *)
(*   qian dao / tui: sign in / out          zhuang tai: status             *)

NAME == <<"xing", "ming">>
EMP_ID == <<"kao", "qin", "hao", "ma">>
DATETIME == <<"ri", "qi", "shi", "jian">>
CHECK == <<"qian", "dao", "/", "tui">>

name_keywords == << <<"xing", "ming">>, <<"ming", "zi">>, <<"n", "a", "m", "e">> >>
emp_id_keywords ==
    << <<"kao", "qin">>, <<"hao", "ma">>, <<"i", "d">>, <<"yuan", "gong">>,
       <<"gong", "hao">> >>
datetime_keywords ==
    << DATETIME, <<"shi", "jian">>, <<"d", "a", "t", "e", "t", "i", "m", "e">>,
       <<"d", "a", "t", "e">> >>
check_keywords ==
    << <<"qian">>, <<"c", "h", "e", "c", "k">>, <<"s", "t", "a", "t", "u", "s">> >>

NoColumn == <<>>

\* keyword in col
Contains(col, keyword) ==
    \E i \in 1..(Len(col) - Len(keyword) + 1) :
        SubSeq(col, i, i + Len(keyword) - 1) = keyword

MatchesAny(col, keywords) == \E k \in 1..Len(keywords) : Contains(col, keywords[k])

\* only the first column is looked at
find_column_first(cols, keywords) ==
    IF cols # <<>> /\ MatchesAny(cols[1], keywords) THEN cols[1] ELSE NoColumn

\* the first column, in file order, that contains one of the keywords
find_column(cols, keywords) ==
    LET hits == {i \in 1..Len(cols) : MatchesAny(cols[i], keywords)}
    IN  IF hits = {} THEN NoColumn
        ELSE cols[CHOOSE i \in hits : \A j \in hits : i <= j]

\* column_mapping[k] = v
Assign(mapping, k, v) ==
    [x \in (DOMAIN mapping) \cup {k} |-> IF x = k THEN v ELSE mapping[x]]

EmptyMapping == [x \in {} |-> NoColumn]

Resolution(err, name_col, emp_id_col, datetime_col, check_col, mapping) ==
    [error |-> err, name_col |-> name_col, emp_id_col |-> emp_id_col,
     datetime_col |-> datetime_col, check_col |-> check_col, mapping |-> mapping]

\* the four searches of process_csv, in order; the first that finds nothing raises
resolve_columns(cols) ==
    LET name_col == find_column(cols, name_keywords)
        emp_id_col == find_column(cols, emp_id_keywords)
        datetime_col == find_column(cols, datetime_keywords)
        check_col == find_column(cols, check_keywords)
        m1 == Assign(EmptyMapping, name_col, NAME)
        m2 == Assign(m1, emp_id_col, EMP_ID)
        m3 == Assign(m2, datetime_col, DATETIME)
        m4 == Assign(m3, check_col, CHECK)
    IN  IF name_col = NoColumn
        THEN Resolution("missing name", NoColumn, NoColumn, NoColumn, NoColumn, EmptyMapping)
        ELSE IF emp_id_col = NoColumn
        THEN Resolution("missing emp_id", name_col, NoColumn, NoColumn, NoColumn, m1)
        ELSE IF datetime_col = NoColumn
        THEN Resolution("missing datetime", name_col, emp_id_col, NoColumn, NoColumn, m2)
        ELSE IF check_col = NoColumn
        THEN Resolution("missing check", name_col, emp_id_col, datetime_col, NoColumn, m3)
        ELSE Resolution("", name_col, emp_id_col, datetime_col, check_col, m4)

\* df.rename(columns=column_mapping)
Rename(cols, mapping) ==
    [i \in 1..Len(cols) |-> IF cols[i] \in DOMAIN mapping THEN mapping[cols[i]] ELSE cols[i]]

\* the label names exactly one column, which is what groupby and group[label].str need
OneColumn(cols, label) == Cardinality({i \in 1..Len(cols) : cols[i] = label}) = 1

----------------------------------------------------------------------------
(* Employee ids.  A cell of the id column is the sequence of its           *)
(* characters.  read_csv reads a column of which every cell is a number as *)
(* integers, and any other column as the strings written.  An id is        *)
(* [int, v]: v is str(emp_id).                                             *)

Digits == {"0", "1", "2", "3", "4", "5", "6", "7", "8", "9"}

IsNumber(cell) == cell # <<>> /\ \A i \in 1..Len(cell) : cell[i] \in Digits

RECURSIVE StripZeros(_)
\* str(int(cell))
StripZeros(cell) ==
    IF Len(cell) > 1 /\ Head(cell) = "0" THEN StripZeros(Tail(cell)) ELSE cell

ReadEmpId(cell, all_numbers) ==
    IF all_numbers THEN [int |-> TRUE, v |-> StripZeros(cell)]
    ELSE [int |-> FALSE, v |-> cell]

\* str(emp_id)
Str(emp_id) == emp_id.v

\* pd.read_csv: the rows under the resolved columns.  id_text keeps the id
\* cell as written.
ReadRows(csv_rows) ==
    LET all_numbers == \A i \in 1..Len(csv_rows) : IsNumber(csv_rows[i].emp_id)
    IN  [i \in 1..Len(csv_rows) |->
            [name |-> csv_rows[i].name,
             emp_id |-> ReadEmpId(csv_rows[i].emp_id, all_numbers),
             id_text |-> csv_rows[i].emp_id,
             dt |-> csv_rows[i].dt]]

----------------------------------------------------------------------------
(* EmployeeConfig: a function from keys to <<hour, minute>>.  A key is an  *)
(* id as a sequence of characters, or NoneKey for Python's None.           *)

NoneKey == <<"None">>

\* employee_start_times.get(str(emp_id), (8, 0))
StartTimeOf(cfg, emp_id) ==
    IF Str(emp_id) \in DOMAIN cfg THEN cfg[Str(emp_id)]
    ELSE <<DefaultStartHour, DefaultStartMinute>>

\* employee_start_times.setdefault(k, v)
SetDefaultKey(cfg, k, v) ==
    IF k \in DOMAIN cfg THEN cfg
    ELSE [x \in (DOMAIN cfg) \cup {k} |-> IF x = k THEN v ELSE cfg[x]]

----------------------------------------------------------------------------
(* Grouping *)

NoDate == [y |-> 0, m |-> 0, d |-> 0, pad |-> TRUE]

\* str.extract(r'(\d+/\d+/\d+)'): the first year/month/day written with
\* slashes, as written
ExtractDate(t) ==
    IF t.sep = "/" /\ t.y # 0 THEN [y |-> t.y, m |-> t.m, d |-> t.d, pad |-> t.pad]
    ELSE NoDate

\* datetime.strptime(date_str, "%Y/%m/%d").date(), NoDate if it raises
ParseDate(date_str) ==
    IF FourDigitYear(date_str.y) /\ date_str.m \in 1..12 /\ date_str.d \in 1..31
    THEN [y |-> date_str.y, m |-> date_str.m, d |-> date_str.d, pad |-> TRUE]
    ELSE NoDate

RECURSIVE NumChars(_)
\* the decimal digits of n
NumChars(n) == IF n < 10 THEN <<n>> ELSE Append(NumChars(n \div 10), n % 10)

TwoChars(n, pad) == IF pad /\ n < 10 THEN <<0, n>> ELSE NumChars(n)

\* the characters of a date string; "/" sorts before every digit
DateChars(ds) ==
    NumChars(ds.y) \o <<-1>> \o TwoChars(ds.m, ds.pad) \o <<-1>> \o TwoChars(ds.d, ds.pad)

RECURSIVE SeqLT(_, _)
\* string order
SeqLT(a, b) ==
    IF b = <<>> THEN FALSE
    ELSE IF a = <<>> THEN TRUE
    ELSE IF Head(a) # Head(b) THEN Head(a) < Head(b)
    ELSE SeqLT(Tail(a), Tail(b))

\* the names of the inputs, in string order
NameOrder == <<"Amy", "Bob", "Cat">>
NameRank(n) == CHOOSE i \in 1..Len(NameOrder) : NameOrder[i] = n

CharOrder == <<"0", "1", "2", "3", "4", "5", "6", "7", "8", "9", "A", "B", "C">>
CharRank(c) == CHOOSE i \in 1..Len(CharOrder) : CharOrder[i] = c
Ranks(cell) == [i \in 1..Len(cell) |-> CharRank(cell[i])]

\* order of two ids of one column: numbers as numbers, strings as strings
EmpIdLT(a, b) ==
    IF a.int /\ Len(a.v) # Len(b.v) THEN Len(a.v) < Len(b.v)
    ELSE SeqLT(Ranks(a.v), Ranks(b.v))

\* groupby sorts its keys: (name, emp_id), and within them the date string
GroupKeyLT(a, b) ==
    IF a.name # b.name THEN NameRank(a.name) < NameRank(b.name)
    ELSE IF a.emp_id # b.emp_id THEN EmpIdLT(a.emp_id, b.emp_id)
    ELSE SeqLT(DateChars(a.date_str), DateChars(b.date_str))

GroupKeys(rows) ==
    {[name |-> rows[i].name, emp_id |-> rows[i].emp_id, date_str |-> ExtractDate(rows[i].dt)] :
        i \in {j \in 1..Len(rows) : ExtractDate(rows[j].dt) # NoDate}}

RECURSIVE SortKeys(_)
SortKeys(keys) ==
    IF keys = {} THEN <<>>
    ELSE LET k == CHOOSE x \in keys : \A z \in keys \ {x} : GroupKeyLT(x, z)
         IN  <<k>> \o SortKeys(keys \ {k})

\* the rows of one (name, emp_id, date string) group, in file order
GroupRows(rows, key) ==
    SelectSeq(rows, LAMBDA r : r.name = key.name /\ r.emp_id = key.emp_id
                               /\ ExtractDate(r.dt) = key.date_str)

\* every date group the two nested loops of process_csv visit, in order
DateGroups(rows) ==
    LET keys == SortKeys(GroupKeys(rows))
    IN  [i \in 1..Len(keys) |->
            [name |-> keys[i].name, emp_id |-> keys[i].emp_id,
             date_str |-> keys[i].date_str, rows |-> GroupRows(rows, keys[i])]]

\* the records of a date group: those whose datetime parsed
GroupRecords(g) ==
    ValidRecords([i \in 1..Len(g.rows) |->
                    AttendanceRecord(g.name, g.emp_id, g.rows[i].dt)])

\* whether the loop body reaches DailyAttendance(...) for the group
YieldsRecord(g) == ParseDate(g.date_str) # NoDate /\ GroupRecords(g) # <<>>

\* the DailyAttendance the loop body builds for the group
GroupDaily(cfg, g) ==
    LET start == StartTimeOf(cfg, g.emp_id)
    IN  DailyAttendance(g.name, g.emp_id, ParseDate(g.date_str), GroupRecords(g),
                        start[1], start[2])

----------------------------------------------------------------------------
(* The result table *)

DateLT(a, b) ==
    \/ a.y < b.y
    \/ a.y = b.y /\ a.m < b.m
    \/ a.y = b.y /\ a.m = b.m /\ a.d < b.d

\* sort_values(["date", "name"]): the order of two rows
RowLT(a, b) ==
    \/ DateLT(a.date, b.date)
    \/ a.date = b.date /\ NameRank(a.name) < NameRank(b.name)

RECURSIVE InsertRow(_, _)
InsertRow(r, seq) ==
    IF seq = <<>> THEN <<r>>
    ELSE IF RowLT(r, Head(seq)) THEN <<r>> \o seq
    ELSE <<Head(seq)>> \o InsertRow(r, Tail(seq))

\* the rows left in the order the loops appended them
SortRowsNone(rows) == rows

RECURSIVE SortRows(_)
SortRows(rows) ==
    IF rows = <<>> THEN <<>>
    ELSE InsertRow(rows[Len(rows)], SortRows(SubSeq(rows, 1, Len(rows) - 1)))

----------------------------------------------------------------------------
(* Inputs *)

Employees ==
    { [name |-> "Amy", emp_id |-> <<"1", "0", "1">>],
      [name |-> "Bob", emp_id |-> <<"0", "0", "7">>],
      [name |-> "Cat", emp_id |-> <<"A", "0", "1">>] }

\* "2024/01/15 08:30", "2024/01/15 A12P12 17:30:00", "2024-01-15 12:00",
\* "01/15 09:00", a text that is no date, "2024/1/15 7:40", "2024/01/16 07:40",
\* "2024/01/15 25:00"
PipeTexts ==
    { Text("/", 2024, 1, 15, TRUE, 8, 30, -1, FALSE),
      Text("/", 2024, 1, 15, TRUE, 17, 30, 0, TRUE),
      Text("-", 2024, 1, 15, TRUE, 12, 0, -1, FALSE),
      Text("/", 0, 1, 15, TRUE, 9, 0, -1, FALSE),
      JunkText,
      Text("/", 2024, 1, 15, FALSE, 7, 40, -1, FALSE),
      Text("/", 2024, 1, 16, TRUE, 7, 40, -1, FALSE),
      Text("/", 2024, 1, 15, TRUE, 25, 0, -1, FALSE) }

CsvRows == {[name |-> e.name, emp_id |-> e.emp_id, dt |-> t] : e \in Employees, t \in PipeTexts}

SeqsUpTo(S, n) == UNION {[1..k -> S] : k \in 0..n}

\* name, attendance number, date and time, sign in/out
GoodHeaders == <<NAME, EMP_ID, DATETIME, CHECK>>
\* no sign in/out column
ShortHeaders == <<NAME, EMP_ID, DATETIME>>
\* "employee name" first: it holds a keyword of the name and one of the id
EmployeeNameHeaders == <<<<"yuan", "gong", "xing", "ming">>, EMP_ID, DATETIME, CHECK>>

\* a "time" column before the "date and time" column
TimeHeaders == <<NAME, EMP_ID, <<"shi", "jian">>, DATETIME, CHECK>>

HeaderChoices == {GoodHeaders, ShortHeaders, EmployeeNameHeaders, TimeHeaders}

\* init_session_state has employee 101 start at 11:00; the sidebar adds 007
AppConfig ==
    [k \in {<<"1", "0", "1">>, <<"0", "0", "7">>} |->
        IF k = <<"1", "0", "1">> THEN <<11, 0>> ELSE <<7, 0>>]
InitConfigs == {AppConfig}

\* the default start of day the sidebar sets
DefaultTimes == {<<8, 0>>, <<9, 0>>}

----------------------------------------------------------------------------
(* process_csv *)

Init ==
    /\ employee_start_times \in InitConfigs
    /\ stage = "Start"
    /\ columns = <<>>
    /\ df = <<>>
    /\ column_mapping = EmptyMapping
    /\ pending = <<>>
    /\ dailies = <<>>
    /\ results = <<>>
    /\ error = ""
    /\ perm = <<>>

\* main: processor.employee_start_times.setdefault(None, (default_hour, default_minute))
SetDefault ==
    /\ stage = "Start"
    /\ NoneKey \notin DOMAIN employee_start_times
    /\ \E t \in DefaultTimes :
        employee_start_times' = SetDefaultKey(employee_start_times, NoneKey, t)
    /\ UNCHANGED <<stage, columns, df, column_mapping, pending, dailies, results, error, perm>>

\* pd.read_csv and the strip of the headers
ReadCsv ==
    /\ stage = "Start"
    /\ \E h \in HeaderChoices, rows \in SeqsUpTo(CsvRows, MaxRows) :
        /\ columns' = h
        /\ df' = ReadRows(rows)
    /\ stage' = "Loaded"
    /\ UNCHANGED <<employee_start_times, column_mapping, pending, dailies, results, error, perm>>

\* the four _find_column calls succeed; df.rename
ResolveColumns ==
    /\ stage = "Loaded"
    /\ resolve_columns(columns).error = ""
    /\ column_mapping' = resolve_columns(columns).mapping
    /\ columns' = Rename(columns, resolve_columns(columns).mapping)
    /\ stage' = "ColumnsResolved"
    /\ UNCHANGED <<employee_start_times, df, pending, dailies, results, error, perm>>

\* a _find_column call finds nothing: ValueError
MissingColumn ==
    /\ stage = "Loaded"
    /\ resolve_columns(columns).error # ""
    /\ error' = resolve_columns(columns).error
    /\ column_mapping' = resolve_columns(columns).mapping
    /\ stage' = "Failed"
    /\ UNCHANGED <<employee_start_times, columns, df, pending, dailies, results, perm>>

\* df.groupby([name, emp_id]) and, in each group, the date column and
\* groupby(date); an empty table has no group to read the date of
Group ==
    /\ stage = "ColumnsResolved"
    /\ OneColumn(columns, NAME) /\ OneColumn(columns, EMP_ID)
    /\ df = <<>> \/ OneColumn(columns, DATETIME)
    /\ pending' = DateGroups(df)
    /\ stage' = "Grouped"
    /\ UNCHANGED <<employee_start_times, columns, df, column_mapping, dailies, results, error, perm>>

\* groupby raises KeyError: one of its two labels names no column, or two
GroupKeyError ==
    /\ stage = "ColumnsResolved"
    /\ ~(OneColumn(columns, NAME) /\ OneColumn(columns, EMP_ID))
    /\ error' = "KeyError"
    /\ stage' = "Failed"
    /\ UNCHANGED <<employee_start_times, columns, df, column_mapping, pending, dailies, results, perm>>

\* the first pass of the outer loop raises: the datetime label names no
\* column (KeyError) or two (a DataFrame has no .str)
ExtractError ==
    /\ stage = "ColumnsResolved"
    /\ OneColumn(columns, NAME) /\ OneColumn(columns, EMP_ID)
    /\ df # <<>>
    /\ ~OneColumn(columns, DATETIME)
    /\ error' = "AttributeError"
    /\ stage' = "Failed"
    /\ UNCHANGED <<employee_start_times, columns, df, column_mapping, pending, dailies, results, perm>>

\* one pass of the inner loop that ends in `continue`
SkipGroup ==
    /\ stage = "Grouped"
    /\ pending # <<>>
    /\ ~YieldsRecord(Head(pending))
    /\ pending' = Tail(pending)
    /\ UNCHANGED <<employee_start_times, stage, columns, df, column_mapping, dailies, results, error, perm>>

\* one pass of the inner loop that appends daily.to_dict()
ProcessGroup ==
    /\ stage = "Grouped"
    /\ pending # <<>>
    /\ YieldsRecord(Head(pending))
    /\ LET daily == GroupDaily(employee_start_times, Head(pending))
       IN  /\ dailies' = Append(dailies, daily)
           /\ results' = Append(results, to_dict(daily))
    /\ pending' = Tail(pending)
    /\ UNCHANGED <<employee_start_times, stage, columns, df, column_mapping, error, perm>>

\* the loops end
EndLoop ==
    /\ stage = "Grouped"
    /\ pending = <<>>
    /\ stage' = "Aggregated"
    /\ UNCHANGED <<employee_start_times, columns, df, column_mapping, pending, dailies, results, error, perm>>

\* if not results: raise ValueError
NoRecords ==
    /\ stage = "Aggregated"
    /\ results = <<>>
    /\ error' = "no records"
    /\ stage' = "Failed"
    /\ UNCHANGED <<employee_start_times, columns, df, column_mapping, pending, dailies, results, perm>>

\* pd.DataFrame(results).sort_values([date, name])
SortResults ==
    /\ stage = "Aggregated"
    /\ results # <<>>
    /\ results' = SortRows(results)
    /\ stage' = "Sorted"
    /\ UNCHANGED <<employee_start_times, columns, df, column_mapping, pending, dailies, error, perm>>

\* return result_df[column_order]
Return ==
    /\ stage = "Sorted"
    /\ stage' = "Done"
    /\ UNCHANGED <<employee_start_times, columns, df, column_mapping, pending, dailies, results, error, perm>>

Next ==
    \/ SetDefault
    \/ ReadCsv
    \/ ResolveColumns
    \/ MissingColumn
    \/ Group
    \/ GroupKeyError
    \/ ExtractError
    \/ SkipGroup
    \/ ProcessGroup
    \/ EndLoop
    \/ NoRecords
    \/ SortResults
    \/ Return

Spec == Init /\ [][Next]_vars

----------------------------------------------------------------------------
(* One employee-day: the body of the inner loop of process_csv on one date *)
(* group, over a finer set of punch times.                                 *)

\* hour, minute, seconds (-1: not written); 25:00 is no time of day
DailyTimes ==
    { <<7, 40, -1>>, <<8, 0, -1>>, <<8, 30, -1>>, <<10, 30, -1>>, <<11, 15, -1>>,
      <<12, 0, -1>>, <<12, 29, 40>>, <<12, 30, -1>>, <<13, 0, -1>>, <<14, 30, -1>>,
      <<14, 31, -1>>, <<16, 31, -1>>, <<17, 30, -1>>, <<20, 0, -1>>, <<25, 0, -1>> }

DailyTexts == {Text("/", 2024, 1, 15, TRUE, t[1], t[2], t[3], FALSE) : t \in DailyTimes}

\* the configured start of day of the employee of the group
DailyStarts == {<<8, 0>>, <<11, 0>>, <<7, 30>>}

DailyEmployee == [name |-> "Amy", emp_id |-> <<"1", "0", "1">>]

DailyGroupOf(texts) ==
    DateGroups(ReadRows([i \in 1..Len(texts) |->
        [name |-> DailyEmployee.name, emp_id |-> DailyEmployee.emp_id, dt |-> texts[i]]]))[1]

InitDaily ==
    /\ employee_start_times \in {[k \in {DailyEmployee.emp_id} |-> t] : t \in DailyStarts}
    /\ stage = "Grouped"
    /\ columns = GoodHeaders
    /\ df = <<>>
    /\ column_mapping = resolve_columns(GoodHeaders).mapping
    /\ pending = <<>>
    /\ dailies = <<>>
    /\ results = <<>>
    /\ error = ""
    /\ perm = <<>>

\* the loop reaches a date group of one to MaxPunches rows
DailyGroup ==
    /\ stage = "Grouped"
    /\ pending = <<>>
    /\ dailies = <<>>
    /\ \E n \in 1..MaxPunches : \E texts \in [1..n -> DailyTexts] :
        pending' = <<DailyGroupOf(texts)>>
    /\ UNCHANGED <<employee_start_times, stage, columns, df, column_mapping, dailies, results, error, perm>>

\* daily = DailyAttendance(...)
DailyBuild ==
    /\ stage = "Grouped"
    /\ pending # <<>>
    /\ dailies = <<>>
    /\ YieldsRecord(Head(pending))
    /\ dailies' = <<GroupDaily(employee_start_times, Head(pending))>>
    /\ UNCHANGED <<employee_start_times, stage, columns, df, column_mapping, pending, results, error, perm>>

\* if not records: continue
DailySkip ==
    /\ stage = "Grouped"
    /\ pending # <<>>
    /\ dailies = <<>>
    /\ ~YieldsRecord(Head(pending))
    /\ pending' = <<>>
    /\ UNCHANGED <<employee_start_times, stage, columns, df, column_mapping, dailies, results, error, perm>>

\* results.append(daily.to_dict())
DailyEmit ==
    /\ stage = "Grouped"
    /\ dailies # <<>>
    /\ results = <<>>
    /\ results' = <<to_dict(dailies[1])>>
    /\ UNCHANGED <<employee_start_times, stage, columns, df, column_mapping, pending, dailies, error, perm>>

\* on to the next group
DailyNext ==
    /\ stage = "Grouped"
    /\ results # <<>>
    /\ pending' = <<>>
    /\ dailies' = <<>>
    /\ results' = <<>>
    /\ UNCHANGED <<employee_start_times, stage, columns, df, column_mapping, error, perm>>

NextDaily == DailyGroup \/ DailyBuild \/ DailySkip \/ DailyEmit \/ DailyNext

SpecDaily == InitDaily /\ [][NextDaily]_vars

----------------------------------------------------------------------------
(* The check-in of a day of one punch: to_dict on a DailyAttendance whose  *)
(* check-in is any minute and second of the morning.                       *)

\* hours, minutes and seconds (-1: the text has none) of the punch
RoundTimes ==
    {<<h, mi, sec>> : h \in 6..12, mi \in {0, 1, 30, 40, 59}, sec \in {-1, 0, 40}}

RoundTexts == {Text("/", 2024, 1, 15, TRUE, t[1], t[2], t[3], FALSE) : t \in RoundTimes}

\* the loop reaches a date group of one row
RoundGroup ==
    /\ stage = "Grouped"
    /\ pending = <<>>
    /\ dailies = <<>>
    /\ \E text \in RoundTexts : pending' = <<DailyGroupOf(<<text>>)>>
    /\ UNCHANGED <<employee_start_times, stage, columns, df, column_mapping, dailies, results, error, perm>>

NextRound == RoundGroup \/ DailyBuild \/ DailyEmit \/ DailyNext

SpecRound == InitDaily /\ [][NextRound]_vars

----------------------------------------------------------------------------
(* Column resolution on a header sequence and on a permutation of it *)

\* name, attendance number, date and time, time, sign in/out, remarks
HeaderPool ==
    {NAME, EMP_ID, DATETIME, <<"shi", "jian">>, CHECK, <<"bei", "zhu">>}

Injective(f) == \A i, j \in DOMAIN f : f[i] = f[j] => i = j

\* the sequences of at most n distinct headers
HeaderSeqs(n) == {h \in SeqsUpTo(HeaderPool, n) : Injective(h)}

\* h with the headers at i and j exchanged
Swap(h, i, j) ==
    [k \in 1..Len(h) |-> IF k = i THEN h[j] ELSE IF k = j THEN h[i] ELSE h[k]]

\* the orders one exchange away from h: every permutation is a chain of
\* exchanges, and a resolution that no exchange changes none of them changes
Reorderings(h) == {Swap(h, i, j) : i, j \in 1..Len(h)}

InitCols ==
    /\ employee_start_times = AppConfig
    /\ stage = "Loaded"
    /\ columns = <<>>
    /\ df = <<>>
    /\ column_mapping = EmptyMapping
    /\ pending = <<>>
    /\ dailies = <<>>
    /\ results = <<>>
    /\ error = ""
    /\ perm = <<>>

\* a table is loaded, and the same table with its columns in another order
ColsLoad ==
    /\ stage = "Loaded"
    /\ perm = <<>>
    /\ \E h \in HeaderSeqs(MaxCols) : \E g \in Reorderings(h) :
        perm' = [a |-> h, b |-> g, ra |-> <<>>, rb |-> <<>>]
    /\ UNCHANGED <<employee_start_times, stage, columns, df, column_mapping, pending, dailies, results, error>>

\* the four _find_column calls on the first order
ColsResolveA ==
    /\ perm # <<>>
    /\ perm.ra = <<>>
    /\ perm' = [perm EXCEPT !.ra = <<resolve_columns(perm.a)>>]
    /\ UNCHANGED <<employee_start_times, stage, columns, df, column_mapping, pending, dailies, results, error>>

\* the four _find_column calls on the second order
ColsResolveB ==
    /\ perm # <<>>
    /\ perm.ra # <<>>
    /\ perm.rb = <<>>
    /\ perm' = [perm EXCEPT !.rb = <<resolve_columns(perm.b)>>]
    /\ UNCHANGED <<employee_start_times, stage, columns, df, column_mapping, pending, dailies, results, error>>

NextCols == ColsLoad \/ ColsResolveA \/ ColsResolveB

SpecCols == InitCols /\ [][NextCols]_vars

----------------------------------------------------------------------------
(* Properties of one employee-day, checked under SpecDaily.  There         *)
(* dailies[1] is the DailyAttendance of the group pending[1], and          *)
(* results[1] the row to_dict made of it.                                  *)

Max(a, b) == IF a > b THEN a ELSE b

\* the instants of the rows of a group whose text parsed
ParsedInstants(g) == {parse_datetime(g.rows[i].dt) : i \in 1..Len(g.rows)} \ {NoneDt}

\* C1: the actual hours of every emitted record are (check-out - rounded
\* check-in, in minutes, - break minutes) / 60, the rounded check-in being the
\* one the check-in column shows
C1_ActualHoursFromRoundedCheckIn ==
    results # <<>> =>
        results[1].actual_hours =
            Round2Hours(TotalSeconds(dailies[1].check_out_time, CheckInRounded(dailies[1]))
                        - dailies[1].break_minutes * SecPerMin)

\* C2: the overtime hours of every emitted record are max(0, actual hours - 8),
\* as computed and as reported, and never negative
C2_OvertimeIsExcessOverEight ==
    results # <<>> =>
        /\ dailies[1].overtime_seconds =
               Max(0, dailies[1].actual_seconds - StandardHours * SecPerHour)
        /\ results[1].overtime_hours = Max(0, results[1].actual_hours - StandardHours * 100)
        /\ results[1].overtime_hours >= 0

\* a record with overtime has been emitted
C2_Witness == results # <<>> /\ results[1].overtime_hours > 0

\* C3: a record with a break (found between two punches or made up by the
\* fallback) has at least 60 break minutes; the break minutes are 0 exactly
\* when the record has no break
C3_BreakMinutesAtLeastSixty ==
    results # <<>> =>
        /\ results[1].break_start # <<>> => results[1].break_minutes >= MinBreakMinutes
        /\ results[1].break_minutes = 0 <=> results[1].break_start = <<>>
        /\ results[1].break_start = <<>> <=> results[1].break_end = <<>>

\* a break of 30 minutes between two punches is reported as 60 minutes
C3_Witness ==
    /\ results # <<>>
    /\ results[1].break_start = <<12, 0>>
    /\ results[1].break_end = <<12, 30>>
    /\ results[1].break_minutes = MinBreakMinutes

\* C4 as claimed: the rounded check-in of every record is at or before its check-out
C4_RoundedCheckInBeforeCheckOut ==
    dailies # <<>> => DtLE(CheckInRounded(dailies[1]), dailies[1].check_out_time)

\* the check-in lies before the start of day and off the hour, and the
\* check-out before the next whole hour
EarlyShortDay(d) ==
    /\ DtLT(d.check_in_time, ReplaceTime(d.check_in_time, d.start_time_hour, d.start_time_minute))
    /\ Minute(d.check_in_time) > 0 \/ Second(d.check_in_time) > 0
    /\ DtLT(d.check_out_time, AddSeconds(ReplaceMinute0(d.check_in_time), SecPerHour))

\* C4 as amended: the raw check-in is at or before the check-out, and the
\* rounded check-in is at or before the check-out unless the check-in is an
\* early arrival off the hour and the check-out lies before the next whole hour
C4_RoundedCheckInBeforeCheckOutUnlessEarly ==
    dailies # <<>> =>
        /\ DtLE(dailies[1].check_in_time, dailies[1].check_out_time)
        /\ DtLE(CheckInRounded(dailies[1]), dailies[1].check_out_time)
               <=> ~EarlyShortDay(dailies[1])

\* an early check-in was raised to the next hour, and the check-out is later
C4_Witness ==
    /\ dailies # <<>>
    /\ DtLT(dailies[1].check_in_time, CheckInRounded(dailies[1]))
    /\ DtLT(CheckInRounded(dailies[1]), dailies[1].check_out_time)

\* C5: the break start and the break end of every record with a break lie
\* between the raw check-in and the check-out
C5_BreakWithinWorkSpan ==
    dailies # <<>> /\ ~IsNone(dailies[1].break_start) =>
        /\ DtLE(dailies[1].check_in_time, dailies[1].break_start)
        /\ DtLE(dailies[1].break_start, dailies[1].check_out_time)
        /\ DtLE(dailies[1].check_in_time, dailies[1].break_end)
        /\ DtLE(dailies[1].break_end, dailies[1].check_out_time)

\* C10: the raw check-in is the least and the check-out the greatest instant
\* among the parsed punches of the group, whatever the order of the rows, and
\* the check-out column shows that greatest instant, not rounded
C10_CheckInOutAreMinMax ==
    dailies # <<>> =>
        LET P == ParsedInstants(pending[1])
            lo == CHOOSE t \in P : \A u \in P : DtLE(t, u)
            hi == CHOOSE t \in P : \A u \in P : DtLE(u, t)
        IN  /\ dailies[1].check_in_time = lo
            /\ dailies[1].check_out_time = hi
            /\ results # <<>> => results[1].check_out = <<Hour(hi), Minute(hi)>>

\* a record emitted for three punches that came latest first, one of them off
\* the hour
C10_Witness ==
    /\ results # <<>>
    /\ Len(pending[1].rows) = 3
    /\ DtLT(parse_datetime(pending[1].rows[3].dt), parse_datetime(pending[1].rows[2].dt))
    /\ DtLT(parse_datetime(pending[1].rows[2].dt), parse_datetime(pending[1].rows[1].dt))
    /\ results[1].check_out = <<17, 30>>

----------------------------------------------------------------------------
(* Properties of a run of process_csv, checked under Spec.  Until the      *)
(* table is sorted, results[k] is the row of dailies[k].                   *)

\* C6: with the default entry (key None) in the configuration, the day of an
\* employee whose id is not a key starts at the default entry's time, and the
\* day of an employee whose id is a key starts at its own entry's time
C6_StartOfDayFromConfig ==
    \A k \in 1..Len(dailies) :
        LET d == dailies[k]
            start == <<d.start_time_hour, d.start_time_minute>>
        IN  IF Str(d.emp_id) \in DOMAIN employee_start_times
            THEN start = employee_start_times[Str(d.emp_id)]
            ELSE NoneKey \in DOMAIN employee_start_times
                     => start = employee_start_times[NoneKey]

\* the reason a run may fail, by the stage it fails in
MayFail ==
    \/ stage = "Loaded" /\ resolve_columns(columns).error # ""
    \/ stage = "Aggregated" /\ results = <<>>

\* the stages in the order a run goes through them
StageRank(st) ==
    CASE st = "Start" -> 0
      [] st = "Loaded" -> 1
      [] st = "ColumnsResolved" -> 2
      [] st = "Grouped" -> 3
      [] st = "Aggregated" -> 4
      [] st = "Sorted" -> 5
      [] st = "Done" -> 6
      [] st = "Failed" -> 7

\* C7: a run goes through its stages in order, and fails only in Loaded, for a
\* field no header matches, or in Aggregated, for want of any record
C7_FailsOnlyFromLoadedOrAggregated ==
    [][/\ StageRank(stage') >= StageRank(stage)
       /\ stage' = "Failed" /\ stage # "Failed" => MayFail]_vars

\* C9: every row whose datetime text one of the six formats parses is among the
\* punches of the daily record of its employee and date
C9_ParsedRowsAreCounted ==
    stage = "Aggregated" =>
        \A i \in 1..Len(df) :
            ~IsNone(parse_datetime(df[i].dt)) =>
                \E k \in 1..Len(dailies) :
                    /\ dailies[k].name = df[i].name
                    /\ dailies[k].emp_id = df[i].emp_id
                    /\ \E j \in 1..Len(dailies[k].records) :
                        /\ dailies[k].records[j].datetime_str = df[i].dt
                        /\ dailies[k].records[j].datetime = parse_datetime(df[i].dt)

----------------------------------------------------------------------------
(* Properties of column resolution, checked under SpecCols *)

\* the headers of cols that contain one of the keywords
Matching(cols, keywords) == {cols[i] : i \in {j \in 1..Len(cols) : MatchesAny(cols[j], keywords)}}

EveryFieldMatched(cols) ==
    /\ Matching(cols, name_keywords) # {}
    /\ Matching(cols, emp_id_keywords) # {}
    /\ Matching(cols, datetime_keywords) # {}
    /\ Matching(cols, check_keywords) # {}

EveryFieldMatchedOnce(cols) ==
    /\ Cardinality(Matching(cols, name_keywords)) = 1
    /\ Cardinality(Matching(cols, emp_id_keywords)) = 1
    /\ Cardinality(Matching(cols, datetime_keywords)) = 1
    /\ Cardinality(Matching(cols, check_keywords)) = 1

BothResolved == perm # <<>> /\ perm.ra # <<>> /\ perm.rb # <<>>

\* both orders resolve, each field to the same header, and to the same mapping
SameResolution ==
    /\ perm.ra[1].error = "" /\ perm.rb[1].error = ""
    /\ perm.ra[1] = perm.rb[1]

\* C8 as claimed: a header sequence and a permutation of it in which every
\* field has a matching header resolve every field to the same header
C8_ResolutionIsOrderIndependent ==
    BothResolved /\ EveryFieldMatched(perm.a) /\ EveryFieldMatched(perm.b) => SameResolution

\* C8 as amended: they do when every field has exactly one matching header
C8_ResolutionIsOrderIndependentIfUnique ==
    BothResolved /\ EveryFieldMatchedOnce(perm.a) /\ EveryFieldMatchedOnce(perm.b)
        => SameResolution

\* two different orders of headers that match every field once, both resolved
C8_Witness ==
    /\ BothResolved
    /\ EveryFieldMatchedOnce(perm.a)
    /\ perm.a # perm.b
    /\ perm.a[1] # perm.b[1]
    /\ perm.ra[1].error = ""

----------------------------------------------------------------------------
(* Properties of the table process_csv returns, checked under Spec *)

\* the rows of dailies, in the order the loops appended them
AppendedRows == [k \in 1..Len(dailies) |-> to_dict(dailies[k])]

\* C11: in the sorted table, and in the table returned, every row is followed
\* by a row of a later date or of the same date and the same or a later name;
\* the table holds the rows the loops appended, each as often
C11_TableOrderedByDateThenName ==
    stage \in {"Sorted", "Done"} =>
        /\ \A k \in 1..(Len(results) - 1) :
            \/ DateLT(results[k].date, results[k + 1].date)
            \/ /\ results[k].date = results[k + 1].date
               /\ NameRank(results[k].name) <= NameRank(results[k + 1].name)
        /\ Len(results) = Len(dailies)
        /\ \A r \in {AppendedRows[k] : k \in 1..Len(dailies)} :
            Cardinality({k \in 1..Len(results) : results[k] = r})
                = Cardinality({k \in 1..Len(dailies) : AppendedRows[k] = r})

\* a table of two rows was returned in another order than the loops appended
\* them: the later date of the earlier name came first
C11_Witness ==
    /\ stage = "Done"
    /\ Len(results) = 2
    /\ results # AppendedRows
    /\ DateLT(results[1].date, results[2].date)
    /\ NameRank(results[2].name) < NameRank(results[1].name)

\* C12: no two rows of the table returned have the same employee id and the
\* same date
C12_OneRowPerEmployeeAndDate ==
    stage = "Done" =>
        \A i, j \in 1..Len(results) :
            i # j => ~(/\ results[i].emp_id = results[j].emp_id
                       /\ results[i].date = results[j].date)

----------------------------------------------------------------------------
(* Properties of the rounded check-in, checked under SpecRound *)

\* the check-in column the claim gives a check-in c of a day that starts at
\* start_time_hour:start_time_minute: the hour of c when c is at or after the
\* start or on the hour, the next hour when c is before the start and off it
ClaimedCheckIn(c, start_time_hour, start_time_minute) ==
    LET early == TimeOfDay(c) < start_time_hour * SecPerHour + start_time_minute * SecPerMin
        on_the_hour == Minute(c) = 0 /\ Second(c) = 0
    IN  IF early /\ ~on_the_hour THEN <<Hour(c) + 1, 0>> ELSE <<Hour(c), 0>>

----------------------------------------------------------------------------
(* Properties of the break of one employee-day, checked under SpecDaily *)

\* the gap between punch i and punch i + 1 of the ascending punches p, in seconds
Gap(p, i) == TotalSeconds(p[i + 1].datetime, p[i].datetime)

\* the pair (p[i], p[i + 1]) qualifies: its gap is 30 to 120 minutes and the
\* time of day of p[i] is 10:30 to 14:30, bounds included
Qualifies(p, i) ==
    /\ 30 * 60 <= Gap(p, i) /\ Gap(p, i) <= 120 * 60
    /\ <<Hour(p[i].datetime), Minute(p[i].datetime), Second(p[i].datetime)>> \in
           {<<h, mi, sec>> \in (10..14) \X (0..59) \X (0..59) :
                /\ h = 10 => mi >= 30
                /\ h = 14 => mi < 30 \/ (mi = 30 /\ sec = 0)}

\* the break of the day d is the one the claim describes; the minutes of a
\* break between two punches are max(60, gap), the gap taken in whole
\* minutes (the seconds dropped) if whole, and to the second if not
BreakAsClaimed(d, whole) ==
    LET p == d.records
        Q == {i \in 1..(Len(p) - 1) : Qualifies(p, i)}
        start == AddSeconds(d.check_in_time, 4 * 60 * 60)
    IN  IF Q # {}
        THEN LET i == CHOOSE k \in Q : \A j \in Q : k <= j
             IN  /\ d.break_start = p[i].datetime
                 /\ d.break_end = p[i + 1].datetime
                 /\ IF whole
                    THEN d.break_minutes = Max(60, Gap(p, i) \div 60)
                    ELSE d.break_minutes * 60 = Max(60 * 60, Gap(p, i))
        ELSE IF DtLT(start, d.check_out_time)
        THEN /\ d.break_start = start
             /\ d.break_end = AddSeconds(start, 60 * 60)
             /\ d.break_minutes = 60
        ELSE /\ IsNone(d.break_start) /\ IsNone(d.break_end)
             /\ d.break_minutes = 0

\* C14 as claimed: the break is the first qualifying pair of adjacent punches
\* with max(60, gap) break minutes, or else the fallback break of 60 minutes
\* four hours after the check-in if that is before the check-out, or else none
C14_BreakIsFirstQualifyingPair ==
    dailies # <<>> => BreakAsClaimed(dailies[1], FALSE)

\* C14 as amended: the same with the break minutes of a qualifying pair being
\* max(60, gap in whole minutes), the seconds of the gap dropped
C14_BreakIsFirstQualifyingPairWholeMinutes ==
    dailies # <<>> =>
        /\ BreakAsClaimed(dailies[1], TRUE)
        /\ results # <<>> =>
            /\ results[1].break_minutes = dailies[1].break_minutes
            /\ results[1].break_start = StrfHM(dailies[1].break_start)
            /\ results[1].break_end = StrfHM(dailies[1].break_end)

\* three punches, both pairs qualify, the first is the break: 11:15 to
\* 12:29:40 is 74 minutes and 40 seconds, reported as 74 minutes
C14_Witness ==
    /\ results # <<>>
    /\ Len(dailies[1].records) = 3
    /\ Qualifies(dailies[1].records, 1)
    /\ Qualifies(dailies[1].records, 2)
    /\ results[1].break_start = <<11, 15>>
    /\ results[1].break_end = <<12, 29>>
    /\ results[1].break_minutes = 74

====
